---- MODULE Spec2Model ----
(***************************************************************************)
(* Model of the Diakonoel photobooth component                             *)
(* (src/src/components/DiakonoelPhotobooth.tsx).                           *)
(*                                                                         *)
(* The component runs on one browser event loop.  Every action below is    *)
(* one task of that loop: a click handler, a timer or interval callback,   *)
(* an image load/error event, or the settlement of a promise, each taken   *)
(* together with the continuation of handleStartCapture that the event     *)
(* resumes (the code between two awaits runs without interruption).        *)
(* No time is modelled: pending events may fire in any order.              *)
(***************************************************************************)
EXTENDS Integers, Sequences, FiniteSets, TLC

(* ---- bounds of the model ---- *)
MaxSessions == 2        \* clicks on the capture button that are explored
MaxCamRequests == 1     \* clicks on the camera button that are explored
MaxUploads == 2         \* calls of uploadStripToFirebase that are explored
MaxClockSteps == 3      \* advances of the wall clock that are explored
MaxSeconds == 14        \* longest countdown that is explored
MaxDim == 5             \* image sides 1..MaxDim are explored, next to the
                        \* camera sizes of CameraDims

(* ---- program constants ---- *)
CAPTURE_COUNT == 4
CountdownSeconds == 3

Sessions == 1..MaxSessions
Slots == 1..CAPTURE_COUNT

(* ---- values ---- *)
\* A data URL is [sess, slots]: sess = -1 stands for null, sess = 0 for the
\* empty string, sess = s > 0 for the PNG of the strip canvas produced in
\* session s; slots is the content of the four slots at encoding time.
NoSlots == [k \in Slots |-> -1]
NullUrl == [sess |-> -1, slots |-> NoSlots]
EmptyUrl == [sess |-> 0, slots |-> NoSlots]
\* Content of the off-screen capture canvas: Blank for a fresh canvas,
\* Frame(s, k) for the video frame drawn in round k of session s.
Blank == 0
Frame(s, k) == s * 10 + k
NullMsg == "null"
UploadFailedMsg == "upload failed"

VARIABLES
    mounted,        \* FALSE once the effect cleanup (teardown) has run
    hasCamera, isCapturing, countdown, flashVisible,
    resultUrl, printStage, qrUrl, uploading, uploadError,
    streamRef, printTimerRef,
    \* camera
    nCam,           \* getUserMedia requests issued so far
    camPending,     \* number of requests not yet settled
    acquired,       \* streams handed out by getUserMedia
    stopped,        \* streams whose tracks have all been stopped
    alerts,         \* number of alert() calls
    \* sessions: the locals of each invocation of handleStartCapture
    nSess, pc, round, current, tmpCanvas, shots,
    \* makeStrip
    imgState, loaded, resolved, stripUrl, stripCanvas,
    imgFailed,      \* sessions one of whose shot images failed to load
    \* print timers and downloads
    timers,         \* pending setTimeout callbacks, with their closure
    cancelled, fired,
    downloads,      \* anchor clicks made by autoDownload, in order
    \* uploads
    uploadsPending, filename,
    uploadCalls,    \* calls of uploadStripToFirebase made by each session
    \* the output publisher taken alone (uploadStripToFirebase, firebase.ts)
    clock,          \* the instant new Date() returns
    upc,            \* position of each call of uploadStripToFirebase
    upFilename,     \* the filename each call was given
    upPath,         \* the object path each call computed
    authUser,       \* the identity ensureAnonAuth returned to each call
    currentUser,    \* auth.currentUser (0 = null)
    signInCalls,    \* calls of signInAnonymously so far
    nUsers,         \* anonymous identities created so far
    \* runCountdown taken alone
    cdSeconds,      \* the argument of runCountdown
    cdCurrent,      \* its local variable current
    cdInterval,     \* TRUE while its interval is set
    cdCountdown,    \* the countdown state: <<>> for null, <<k>> for k
    cdShown,        \* the arguments of setCountdown so far, in order
    cdTicks,        \* runs of the interval callback so far
    cdResolves,     \* calls of resolve so far
    \* drawCover taken alone
    dcImgW, dcImgH, \* dimensions of the image
    dcSlot,         \* index of the slot
    dcDrawn         \* the arguments of the drawImage call, <<>> before it

compVars == <<hasCamera, isCapturing, countdown, flashVisible, resultUrl,
              printStage, qrUrl, uploading, uploadError>>
camVars == <<nCam, camPending, acquired, stopped, streamRef>>
sessVars == <<nSess, pc, round, current, tmpCanvas, shots>>
stripVars == <<imgState, loaded, resolved, stripUrl, stripCanvas, imgFailed>>
timerVars == <<timers, cancelled, fired, printTimerRef, downloads>>
upVars == <<uploadsPending, filename, uploadCalls>>
mainVars == <<mounted, compVars, camVars, alerts, sessVars, stripVars,
              timerVars, upVars>>
pubVars == <<clock, upc, upFilename, upPath, authUser, currentUser,
             signInCalls, nUsers>>
cdVars == <<cdSeconds, cdCurrent, cdInterval, cdCountdown, cdShown, cdTicks,
            cdResolves>>
dcVars == <<dcImgW, dcImgH, dcSlot, dcDrawn>>
auxVars == <<pubVars, cdVars, dcVars>>
vars == <<mainVars, auxVars>>

Uploads == 1..MaxUploads

\* The publisher before any call of uploadStripToFirebase.
PubRest ==
    /\ clock = 0
    /\ upc = [c \in Uploads |-> "idle"]
    /\ upFilename = [c \in Uploads |-> <<>>]
    /\ upPath = [c \in Uploads |-> <<>>]
    /\ authUser = [c \in Uploads |-> 0]
    /\ currentUser = 0 /\ signInCalls = 0 /\ nUsers = 0

\* No countdown has been asked for.
CdRest ==
    /\ cdSeconds = 0 /\ cdCurrent = 0 /\ cdInterval = FALSE
    /\ cdCountdown = <<>> /\ cdShown = <<>>
    /\ cdTicks = 0 /\ cdResolves = 0

\* No image is being drawn.
DcRest == dcImgW = 0 /\ dcImgH = 0 /\ dcSlot = 0 /\ dcDrawn = <<>>

\* The component as constructed.
MainRest ==
    /\ mounted = TRUE
    /\ hasCamera = FALSE /\ isCapturing = FALSE
    /\ countdown = 0 /\ flashVisible = FALSE
    /\ resultUrl = NullUrl /\ printStage = "idle"
    /\ qrUrl = 0 /\ uploading = FALSE /\ uploadError = NullMsg
    /\ streamRef = 0 /\ printTimerRef = 0
    /\ nCam = 0 /\ camPending = 0 /\ acquired = {} /\ stopped = {}
    /\ alerts = 0
    /\ nSess = 0
    /\ pc = [s \in Sessions |-> "none"]
    /\ round = [s \in Sessions |-> 0]
    /\ current = [s \in Sessions |-> 0]
    /\ tmpCanvas = [s \in Sessions |-> Blank]
    /\ shots = [s \in Sessions |-> <<>>]
    /\ imgState = [s \in Sessions |-> [k \in Slots |-> "none"]]
    /\ loaded = [s \in Sessions |-> 0]
    /\ resolved = [s \in Sessions |-> FALSE]
    /\ stripUrl = [s \in Sessions |-> EmptyUrl]
    /\ stripCanvas = NoSlots
    /\ imgFailed = {}
    /\ timers = {} /\ cancelled = {} /\ fired = {}
    /\ downloads = <<>>
    /\ uploadsPending = {} /\ filename = [s \in Sessions |-> 0]
    /\ uploadCalls = [s \in Sessions |-> 0]

Init == MainRest /\ PubRest /\ CdRest /\ DcRest

(***************************************************************************)
(* Camera                                                                  *)
(***************************************************************************)

\* The camera button is rendered only while hasCamera is false.
CameraButtonShown == mounted /\ ~hasCamera

\* startCamera up to its await: a getUserMedia request is issued.
StartCameraClick ==
    /\ CameraButtonShown
    /\ nCam < MaxCamRequests
    /\ nCam' = nCam + 1
    /\ camPending' = camPending + 1
    /\ UNCHANGED <<mounted, compVars, acquired, stopped, streamRef, alerts,
                   sessVars, stripVars, timerVars, upVars>>
    /\ UNCHANGED auxVars

\* One of the pending getUserMedia calls resolves with a new stream; the
\* rest of the try block runs.  Streams are numbered as they are handed out.
GetUserMediaResolve ==
    /\ camPending > 0
    /\ camPending' = camPending - 1
    /\ LET stream == Cardinality(acquired) + 1 IN
        /\ acquired' = acquired \cup {stream}
        /\ streamRef' = stream
    /\ hasCamera' = TRUE
    /\ UNCHANGED <<mounted, isCapturing, countdown, flashVisible, resultUrl,
                   printStage, qrUrl, uploading, uploadError, nCam, stopped,
                   alerts, sessVars, stripVars, timerVars, upVars>>
    /\ UNCHANGED auxVars

\* Variant of the rejection in which setHasCamera(true) follows the catch.
GetUserMediaReject_SetsCamera ==
    /\ camPending > 0
    /\ camPending' = camPending - 1
    /\ alerts' = alerts + 1
    /\ hasCamera' = TRUE
    /\ UNCHANGED <<mounted, isCapturing, countdown, flashVisible, resultUrl,
                   printStage, qrUrl, uploading, uploadError, nCam, acquired,
                   stopped, streamRef, sessVars, stripVars, timerVars, upVars>>
    /\ UNCHANGED auxVars

\* One of the pending getUserMedia calls rejects; the catch block raises
\* the alert.
GetUserMediaReject ==
    /\ camPending > 0
    /\ camPending' = camPending - 1
    /\ alerts' = alerts + 1
    /\ UNCHANGED <<mounted, compVars, nCam, acquired, stopped, streamRef,
                   sessVars, stripVars, timerVars, upVars>>
    /\ UNCHANGED auxVars

(***************************************************************************)
(* Image events and the strip canvas                                       *)
(***************************************************************************)

\* The strip canvas is read only by the toDataURL call of a compositing in
\* progress, and bg.onload clears it before that: while no invocation is
\* loading shot images its content is dead and is kept at NoSlots.
Compositing(p) == \E q \in Sessions : p[q] = "imgload"
LiveCanvas(p, canvas) == IF Compositing(p) THEN canvas ELSE NoSlots

\* An image event of a makeStrip call whose promise is already resolved does
\* nothing but draw on the strip canvas.  While the canvas is dead that has
\* no effect at all, so such an event is kept pending: its delivery then is
\* the same as its never being delivered.
Delivered(s) == ~resolved[s] \/ Compositing(pc)

\* Image events that are still to come once the promise is resolved: only
\* the pending ones matter (they still draw on the strip canvas).
StillPending(st) == [k \in Slots |-> IF st[k] = "pending" THEN "pending" ELSE "none"]

\* No compositing can come any more once no invocation is in makeStrip and
\* none can reach it: a new session needs the mounted component, and so
\* does makeStrip (the strip canvas ref is null after teardown).  Image
\* events still pending then can never have an effect and are forgotten.
CanComposite(p, m) ==
    \E q \in Sessions :
        \/ p[q] \in {"bgload", "imgload"}
        \/ m /\ p[q] \in {"none", "countdown", "flash", "pause"}
KeepImages(p, m, st) ==
    IF CanComposite(p, m) THEN st
    ELSE [q \in Sessions |-> [k \in Slots |-> "none"]]

(***************************************************************************)
(* Timers                                                                  *)
(***************************************************************************)

\* window.clearTimeout(id): a pending callback with that id is dropped; the
\* call does nothing for an id that already fired or was already cleared.
ClearTimeout(ts, id) == {t \in ts : t.id # id}
ClearedBy(ts, id) == {t.id : t \in {u \in ts : u.id = id}}

\* The effect cleanup of the component.
Teardown ==
    /\ mounted
    /\ mounted' = FALSE
    /\ stopped' = IF streamRef # 0 THEN stopped \cup {streamRef} ELSE stopped
    /\ timers' = IF printTimerRef # 0 THEN ClearTimeout(timers, printTimerRef)
                 ELSE timers
    /\ cancelled' = IF printTimerRef # 0
                    THEN cancelled \cup ClearedBy(timers, printTimerRef)
                    ELSE cancelled
    /\ imgState' = KeepImages(pc, FALSE, imgState)
    /\ UNCHANGED <<compVars, nCam, camPending, acquired, streamRef, alerts,
                   sessVars, loaded, resolved, stripUrl, stripCanvas,
                   imgFailed, fired, printTimerRef, downloads, upVars>>
    /\ UNCHANGED auxVars

(***************************************************************************)
(* Print simulator                                                         *)
(***************************************************************************)

\* autoDownload(dataUrl, filename): one anchor click, none for an empty URL.
AutoDownload(dataUrl, fname) ==
    downloads' = IF dataUrl = EmptyUrl THEN downloads
                 ELSE Append(downloads, [href |-> dataUrl, download |-> fname])

\* Variant of startPrintAnimation that clears the handle only after it has
\* stored the new one.
StartPrintAnimation_ClearAfter(id, finalUrl, fname) ==
    /\ printStage' = "printing"
    /\ printTimerRef' = id
    /\ timers' = ClearTimeout(
                     timers \cup {[id |-> id, finalUrl |-> finalUrl,
                                   filename |-> fname]}, id)
    /\ cancelled' = cancelled \cup {id}
    /\ UNCHANGED <<fired, downloads>>

\* startPrintAnimation(finalUrl, filename).  The handle returned by
\* setTimeout is modelled by the number id of the calling session.
StartPrintAnimation(id, finalUrl, fname) ==
    /\ printStage' = "printing"
    /\ timers' = (IF printTimerRef # 0 THEN ClearTimeout(timers, printTimerRef)
                  ELSE timers)
                 \cup {[id |-> id, finalUrl |-> finalUrl, filename |-> fname]}
    /\ cancelled' = IF printTimerRef # 0
                    THEN cancelled \cup ClearedBy(timers, printTimerRef)
                    ELSE cancelled
    /\ printTimerRef' = id
    /\ UNCHANGED <<fired, downloads>>

\* Variant of the callback that puts the print stage back to idle.
PrintTimerFire_ToIdle(t) ==
    /\ t \in timers
    /\ timers' = timers \ {t}
    /\ fired' = fired \cup {t.id}
    /\ printStage' = "idle"
    /\ AutoDownload(t.finalUrl, t.filename)
    /\ UNCHANGED <<mounted, hasCamera, isCapturing, countdown, flashVisible,
                   resultUrl, qrUrl, uploading, uploadError, camVars, alerts,
                   sessVars, stripVars, cancelled, printTimerRef, upVars>>
    /\ UNCHANGED auxVars

\* Variant of the callback scheduled with setInterval: it stays pending.
PrintTimerFire_Repeating(t) ==
    /\ t \in timers
    /\ fired' = fired \cup {t.id}
    /\ printStage' = "done"
    /\ AutoDownload(t.finalUrl, t.filename)
    /\ UNCHANGED <<mounted, hasCamera, isCapturing, countdown, flashVisible,
                   resultUrl, qrUrl, uploading, uploadError, camVars, alerts,
                   sessVars, stripVars, timers, cancelled, printTimerRef,
                   upVars>>
    /\ UNCHANGED auxVars

\* The callback scheduled by startPrintAnimation, 2600 ms later.
PrintTimerFire(t) ==
    /\ t \in timers
    /\ timers' = timers \ {t}
    /\ fired' = fired \cup {t.id}
    /\ printStage' = "done"
    /\ AutoDownload(t.finalUrl, t.filename)
    /\ UNCHANGED <<mounted, hasCamera, isCapturing, countdown, flashVisible,
                   resultUrl, qrUrl, uploading, uploadError, camVars, alerts,
                   sessVars, stripVars, cancelled, printTimerRef, upVars>>
    /\ UNCHANGED auxVars

(***************************************************************************)
(* Session controller                                                      *)
(***************************************************************************)

\* makeFilename(new Date()): the name carries the second of its creation.
\* Two sessions never share a second, so the name is modelled by the number
\* of the session that made it.
makeFilename(s) == s

\* Variant of the disabled attribute that ignores the print stage.
CaptureButtonDisabled_NoPrinting == ~hasCamera \/ isCapturing

\* The disabled attribute of the capture button.
CaptureButtonDisabled == ~hasCamera \/ isCapturing \/ printStage = "printing"

\* The button can be clicked only while the component is in the document.
CaptureButtonEnabled == mounted /\ ~CaptureButtonDisabled

\* The first line of handleStartCapture.
HandlerGuard == ~(~hasCamera \/ isCapturing)

\* runCountdown(seconds) up to the return of its promise.
RunCountdown(s, seconds) ==
    /\ current' = [current EXCEPT ![s] = seconds]
    /\ countdown' = seconds

\* A click on the capture button: handleStartCapture up to the first await.
HandleStartCapture ==
    /\ CaptureButtonEnabled
    /\ HandlerGuard
    /\ nSess < MaxSessions
    /\ LET s == nSess + 1 IN
        /\ nSess' = s
        /\ isCapturing' = TRUE
        /\ resultUrl' = NullUrl
        /\ printStage' = "idle"
        /\ qrUrl' = 0
        /\ uploadError' = NullMsg
        /\ round' = [round EXCEPT ![s] = 0]
        /\ RunCountdown(s, CountdownSeconds)
        /\ pc' = [pc EXCEPT ![s] = "countdown"]
    /\ UNCHANGED <<mounted, hasCamera, flashVisible, uploading, camVars,
                   alerts, tmpCanvas, shots, stripVars, timerVars, upVars>>
    /\ UNCHANGED auxVars

\* Variant of captureFrameToCanvas that sizes the canvas before looking at
\* the dimensions, which clears it when they are zero.
CaptureFrameToCanvas_Clears(s, k, dimsOk) ==
    tmpCanvas' = IF mounted
                 THEN [tmpCanvas EXCEPT ![s] = IF dimsOk THEN Frame(s, k) ELSE Blank]
                 ELSE tmpCanvas

\* captureFrameToCanvas(tmpCanvas) in round k (1-based) of session s.  The
\* video element is gone after teardown; its dimensions are zero while it
\* has no frame yet.  In both cases the canvas is left as it is.
CaptureFrameToCanvas(s, k, dimsOk) ==
    tmpCanvas' = IF mounted /\ dimsOk
                 THEN [tmpCanvas EXCEPT ![s] = Frame(s, k)]
                 ELSE tmpCanvas

\* One tick of the interval of runCountdown.  The last tick resolves the
\* promise, and handleStartCapture goes on into flashAndCapture up to its
\* 180 ms timeout.
CountdownTick(s) ==
    /\ pc[s] = "countdown"
    /\ current' = [current EXCEPT ![s] = current[s] - 1]
    /\ IF current'[s] <= 0
       THEN /\ countdown' = 0
            /\ \E dimsOk \in BOOLEAN : CaptureFrameToCanvas(s, round[s] + 1, dimsOk)
            /\ flashVisible' = TRUE
            /\ pc' = [pc EXCEPT ![s] = "flash"]
       ELSE /\ countdown' = current'[s]
            /\ UNCHANGED <<tmpCanvas, flashVisible, pc>>
    /\ UNCHANGED <<mounted, hasCamera, isCapturing, resultUrl, printStage,
                   qrUrl, uploading, uploadError, camVars, alerts, nSess,
                   round, shots, stripVars, timerVars, upVars>>
    /\ UNCHANGED auxVars

\* Variant of the continuation whose failure branch returns without
\* setIsCapturing(false).
AfterMakeStrip_NoReset(s, url, bgAlert) ==
    /\ pc' = [pc EXCEPT ![s] = "ended"]
    /\ IF url = EmptyUrl
       THEN /\ alerts' = alerts + bgAlert + 1
            /\ UNCHANGED <<isCapturing, resultUrl, printStage, uploading,
                           timerVars, upVars>>
       ELSE /\ alerts' = alerts + bgAlert
            /\ isCapturing' = FALSE
            /\ filename' = [filename EXCEPT ![s] = makeFilename(s)]
            /\ resultUrl' = url
            /\ StartPrintAnimation(s, url, filename'[s])
            /\ uploading' = TRUE
            /\ uploadsPending' = uploadsPending \cup {s}
            /\ uploadCalls' = [uploadCalls EXCEPT ![s] = uploadCalls[s] + 1]

\* handleStartCapture after makeStrip has resolved with url (lines 280-304).
\* bgAlert is 1 when the template's onerror handler has just alerted.
\* The invocation is over afterwards (pc = "ended").
AfterMakeStrip(s, url, bgAlert) ==
    /\ pc' = [pc EXCEPT ![s] = "ended"]
    /\ isCapturing' = FALSE
    /\ IF url = EmptyUrl
       THEN /\ alerts' = alerts + bgAlert + 1
            /\ UNCHANGED <<resultUrl, printStage, uploading, timerVars, upVars>>
       ELSE /\ alerts' = alerts + bgAlert
            /\ filename' = [filename EXCEPT ![s] = makeFilename(s)]
            /\ resultUrl' = url
            /\ StartPrintAnimation(s, url, filename'[s])
            /\ uploading' = TRUE
            /\ uploadsPending' = uploadsPending \cup {s}
            /\ uploadCalls' = [uploadCalls EXCEPT ![s] = uploadCalls[s] + 1]

\* The locals of an invocation that is over are unreachable garbage: they
\* are put back to their initial values.
DropLocals(s) ==
    /\ round' = [round EXCEPT ![s] = 0]
    /\ shots' = [shots EXCEPT ![s] = <<>>]
    /\ tmpCanvas' = [tmpCanvas EXCEPT ![s] = Blank]

\* makeStrip(shots) up to the return of its promise: the promise resolves
\* at once with "" when the strip canvas or its context is missing.
MakeStripStart(s, newShots, ctxOk) ==
    IF mounted /\ ctxOk
    THEN /\ pc' = [pc EXCEPT ![s] = "bgload"]
         /\ round' = [round EXCEPT ![s] = round[s] + 1]
         /\ shots' = [shots EXCEPT ![s] = newShots]
         /\ UNCHANGED <<isCapturing, resultUrl, printStage, uploading, alerts,
                        resolved, stripUrl, timerVars, upVars, tmpCanvas>>
    ELSE /\ resolved' = [resolved EXCEPT ![s] = TRUE]
         /\ stripUrl' = [stripUrl EXCEPT ![s] = EmptyUrl]
         /\ AfterMakeStrip(s, EmptyUrl, 0)
         /\ DropLocals(s)

\* Variant of the timeout whose loop ends one round early.
FlashTimeout_ShortLoop(s) ==
    /\ pc[s] = "flash"
    /\ flashVisible' = FALSE
    /\ LET newShots == Append(shots[s], tmpCanvas[s]) IN
       IF round[s] < CAPTURE_COUNT - 2
       THEN /\ pc' = [pc EXCEPT ![s] = "pause"]
            /\ shots' = [shots EXCEPT ![s] = newShots]
            /\ UNCHANGED <<round, isCapturing, resultUrl, printStage,
                           uploading, alerts, resolved, stripUrl, timerVars,
                           upVars, tmpCanvas>>
       ELSE \E ctxOk \in BOOLEAN : MakeStripStart(s, newShots, ctxOk)
    /\ imgState' = KeepImages(pc', mounted, imgState)
    /\ UNCHANGED <<mounted, hasCamera, countdown, qrUrl, uploadError, camVars,
                   nSess, current, loaded, stripCanvas, imgFailed>>
    /\ UNCHANGED auxVars

\* The 180 ms timeout of flashAndCapture: the shot is encoded and pushed;
\* then either the 900 ms pause begins or the loop is left and makeStrip
\* is called.
FlashTimeout(s) ==
    /\ pc[s] = "flash"
    /\ flashVisible' = FALSE
    /\ LET newShots == Append(shots[s], tmpCanvas[s]) IN
       IF round[s] < CAPTURE_COUNT - 1
       THEN /\ pc' = [pc EXCEPT ![s] = "pause"]
            /\ shots' = [shots EXCEPT ![s] = newShots]
            /\ UNCHANGED <<round, isCapturing, resultUrl, printStage,
                           uploading, alerts, resolved, stripUrl, timerVars,
                           upVars, tmpCanvas>>
       ELSE \E ctxOk \in BOOLEAN : MakeStripStart(s, newShots, ctxOk)
    /\ imgState' = KeepImages(pc', mounted, imgState)
    /\ UNCHANGED <<mounted, hasCamera, countdown, qrUrl, uploadError, camVars,
                   nSess, current, loaded, stripCanvas, imgFailed>>
    /\ UNCHANGED auxVars

\* The 900 ms timeout between two rounds: the next round's countdown starts.
PauseTimeout(s) ==
    /\ pc[s] = "pause"
    /\ round' = [round EXCEPT ![s] = round[s] + 1]
    /\ RunCountdown(s, CountdownSeconds)
    /\ pc' = [pc EXCEPT ![s] = "countdown"]
    /\ UNCHANGED <<mounted, hasCamera, isCapturing, flashVisible, resultUrl,
                   printStage, qrUrl, uploading, uploadError, camVars, alerts,
                   nSess, tmpCanvas, shots, stripVars, timerVars, upVars>>
    /\ UNCHANGED auxVars

(***************************************************************************)
(* Strip compositor                                                        *)
(***************************************************************************)

\* The Image object made for shot idx of session s.
Img(s, idx) == s * 10 + idx

\* drawCover(ctx, img, PHOTO_SLOTS[idx]): the image fills the whole slot.
DrawCover(canvas, idx, img) == [canvas EXCEPT ![idx] = img]

\* canvas.toDataURL("image/png") on the strip canvas, in session s.
StripToDataURL(s, canvas) == [sess |-> s, slots |-> canvas]

\* shots.length, as makeStrip reads it once the images exist: forEach has
\* made one Image per shot.
NumImages(s) == Cardinality({k \in Slots : imgState[s][k] # "none"})

\* bg.onload: the canvas is resized (which clears it), the template is
\* drawn, and one image per shot starts loading.  From here on the shots
\* live in the Image objects and the array is read for its length only, so
\* the other locals of the invocation are dropped.
BgOnload(s) ==
    /\ pc[s] = "bgload"
    /\ stripCanvas' = NoSlots
    /\ loaded' = [loaded EXCEPT ![s] = 0]
    /\ imgState' = [imgState EXCEPT ![s] =
                       [k \in Slots |-> IF k <= Len(shots[s]) THEN "pending"
                                        ELSE "none"]]
    /\ pc' = [pc EXCEPT ![s] = "imgload"]
    /\ DropLocals(s)
    /\ UNCHANGED <<mounted, compVars, camVars, alerts, nSess, current,
                   resolved, stripUrl, imgFailed, timerVars, upVars>>
    /\ UNCHANGED auxVars

\* bg.onerror: alert, resolve(""), and handleStartCapture goes on.
BgOnerror(s) ==
    /\ pc[s] = "bgload"
    /\ resolved' = [resolved EXCEPT ![s] = TRUE]
    /\ stripUrl' = [stripUrl EXCEPT ![s] = EmptyUrl]
    /\ AfterMakeStrip(s, EmptyUrl, 1)
    /\ DropLocals(s)
    /\ UNCHANGED <<mounted, hasCamera, countdown, flashVisible, qrUrl,
                   uploadError, camVars, nSess, current, loaded,
                   stripCanvas, imgFailed>>
    /\ imgState' = KeepImages(pc', mounted, imgState)
    /\ UNCHANGED auxVars

\* img.onload of shot idx: the shot is drawn into its slot and counted; the
\* load that makes the count reach shots.length resolves the promise with
\* the encoded canvas.  A promise that is already resolved stays as it is.
ImgOnload(s, idx) ==
    /\ imgState[s][idx] = "pending"
    /\ Delivered(s)
    /\ IF resolved[s]
       THEN /\ imgState' = [imgState EXCEPT ![s][idx] = "none"]
            /\ UNCHANGED <<loaded, resolved, stripUrl, pc, isCapturing, alerts,
                           resultUrl, printStage, uploading, timerVars, upVars>>
       ELSE IF loaded[s] + 1 = NumImages(s)
       THEN /\ resolved' = [resolved EXCEPT ![s] = TRUE]
            /\ stripUrl' = [stripUrl EXCEPT ![s] = StripToDataURL(s, DrawCover(stripCanvas, idx, Img(s, idx)))]
            /\ AfterMakeStrip(s, stripUrl'[s], 0)
            /\ loaded' = [loaded EXCEPT ![s] = 0]
            /\ imgState' = KeepImages(pc', mounted, [imgState EXCEPT ![s] =
                               StillPending([imgState[s] EXCEPT ![idx] = "loaded"])])
       ELSE /\ loaded' = [loaded EXCEPT ![s] = loaded[s] + 1]
            /\ imgState' = [imgState EXCEPT ![s][idx] = "loaded"]
            /\ UNCHANGED <<resolved, stripUrl, pc, isCapturing, alerts,
                           resultUrl, printStage, uploading, timerVars, upVars>>
    /\ UNCHANGED <<mounted, hasCamera, countdown, flashVisible, qrUrl,
                   uploadError, camVars, nSess, current, round, shots,
                   tmpCanvas, imgFailed>>
    /\ stripCanvas' = LiveCanvas(pc', DrawCover(stripCanvas, idx, Img(s, idx)))
    /\ UNCHANGED auxVars

\* Variant of img.onerror that counts the failed shot as loaded instead of
\* resolving with "".
ImgOnerror_Counts(s, idx) ==
    /\ imgState[s][idx] = "pending"
    /\ ~resolved[s]
    /\ imgFailed' = imgFailed \cup {s}
    /\ IF loaded[s] + 1 = NumImages(s)
       THEN /\ resolved' = [resolved EXCEPT ![s] = TRUE]
            /\ stripUrl' = [stripUrl EXCEPT ![s] = StripToDataURL(s, stripCanvas)]
            /\ AfterMakeStrip(s, stripUrl'[s], 0)
            /\ loaded' = [loaded EXCEPT ![s] = 0]
            /\ imgState' = KeepImages(pc', mounted, [imgState EXCEPT ![s] =
                               StillPending([imgState[s] EXCEPT ![idx] = "failed"])])
       ELSE /\ loaded' = [loaded EXCEPT ![s] = loaded[s] + 1]
            /\ imgState' = [imgState EXCEPT ![s][idx] = "failed"]
            /\ UNCHANGED <<resolved, stripUrl, pc, isCapturing, alerts,
                           resultUrl, printStage, uploading, timerVars, upVars>>
    /\ UNCHANGED <<mounted, hasCamera, countdown, flashVisible, qrUrl,
                   uploadError, camVars, nSess, current, round, shots,
                   tmpCanvas>>
    /\ stripCanvas' = LiveCanvas(pc', stripCanvas)
    /\ UNCHANGED auxVars

\* img.onerror of shot idx: resolve(""); the first call wins.  On a promise
\* that is already resolved the call has no effect at all, so its delivery
\* is the same as its never being delivered and the event is kept pending.
ImgOnerror(s, idx) ==
    /\ imgState[s][idx] = "pending"
    /\ ~resolved[s]
    /\ imgFailed' = imgFailed \cup {s}
    /\ resolved' = [resolved EXCEPT ![s] = TRUE]
    /\ stripUrl' = [stripUrl EXCEPT ![s] = EmptyUrl]
    /\ AfterMakeStrip(s, EmptyUrl, 0)
    /\ loaded' = [loaded EXCEPT ![s] = 0]
    /\ imgState' = KeepImages(pc', mounted, [imgState EXCEPT ![s] =
                       StillPending([imgState[s] EXCEPT ![idx] = "failed"])])
    /\ UNCHANGED <<mounted, hasCamera, countdown, flashVisible, qrUrl,
                   uploadError, camVars, nSess, current, round, shots,
                   tmpCanvas>>
    /\ stripCanvas' = LiveCanvas(pc', stripCanvas)
    /\ UNCHANGED auxVars


(***************************************************************************)
(* Output publisher                                                        *)
(***************************************************************************)

\* getDownloadURL of the object uploaded for session s.
DownloadURL(s) == s

\* uploadStripToFirebase resolves: .then sets the QR payload, .finally
\* clears the uploading flag.
UploadResolve(s) ==
    /\ s \in uploadsPending
    /\ uploadsPending' = uploadsPending \ {s}
    /\ qrUrl' = DownloadURL(s)
    /\ uploading' = FALSE
    /\ UNCHANGED <<mounted, hasCamera, isCapturing, countdown, flashVisible,
                   resultUrl, printStage, uploadError, camVars, alerts,
                   sessVars, stripVars, timerVars, filename, uploadCalls>>
    /\ UNCHANGED auxVars

\* Variant of the rejection handler that also resets the print stage.
UploadReject_ResetsPrint(s) ==
    /\ s \in uploadsPending
    /\ uploadsPending' = uploadsPending \ {s}
    /\ uploadError' = UploadFailedMsg
    /\ uploading' = FALSE
    /\ printStage' = "idle"
    /\ UNCHANGED <<mounted, hasCamera, isCapturing, countdown, flashVisible,
                   resultUrl, qrUrl, camVars, alerts,
                   sessVars, stripVars, timerVars, filename, uploadCalls>>
    /\ UNCHANGED auxVars

\* Variant of the rejection handler that starts the upload once more.
UploadReject_Retries(s) ==
    /\ s \in uploadsPending
    /\ uploadError' = UploadFailedMsg
    /\ IF uploadCalls[s] < 2
       THEN /\ uploadCalls' = [uploadCalls EXCEPT ![s] = uploadCalls[s] + 1]
            /\ UNCHANGED <<uploadsPending, uploading>>
       ELSE /\ uploadsPending' = uploadsPending \ {s}
            /\ uploading' = FALSE
            /\ UNCHANGED uploadCalls
    /\ UNCHANGED <<mounted, hasCamera, isCapturing, countdown, flashVisible,
                   resultUrl, printStage, qrUrl, camVars, alerts,
                   sessVars, stripVars, timerVars, filename>>
    /\ UNCHANGED auxVars

\* uploadStripToFirebase rejects: .catch sets the inline error, .finally
\* clears the uploading flag.
UploadReject(s) ==
    /\ s \in uploadsPending
    /\ uploadsPending' = uploadsPending \ {s}
    /\ uploadError' = UploadFailedMsg
    /\ uploading' = FALSE
    /\ UNCHANGED <<mounted, hasCamera, isCapturing, countdown, flashVisible,
                   resultUrl, printStage, qrUrl, camVars, alerts,
                   sessVars, stripVars, timerVars, filename, uploadCalls>>
    /\ UNCHANGED auxVars

(***************************************************************************)
(* Specification                                                           *)
(***************************************************************************)

Next ==
    \/ StartCameraClick
    \/ GetUserMediaResolve
    \/ GetUserMediaReject
    \/ Teardown
    \/ HandleStartCapture
    \/ \E s \in Sessions : CountdownTick(s)
    \/ \E s \in Sessions : FlashTimeout(s)
    \/ \E s \in Sessions : PauseTimeout(s)
    \/ \E s \in Sessions : BgOnload(s)
    \/ \E s \in Sessions : BgOnerror(s)
    \/ \E s \in Sessions, idx \in Slots : ImgOnload(s, idx)
    \/ \E s \in Sessions, idx \in Slots : ImgOnerror(s, idx)
    \/ \E t \in timers : PrintTimerFire(t)
    \/ \E s \in Sessions : UploadResolve(s)
    \/ \E s \in Sessions : UploadReject(s)

Spec == Init /\ [][Next]_vars

(***************************************************************************)
(* The output publisher taken alone                                        *)
(*                                                                         *)
(* uploadStripToFirebase and ensureAnonAuth with the wall clock they read. *)
(* A string is a sequence of tokens, a digit being a token of its own.     *)
(***************************************************************************)

DigitChars == <<"0", "1", "2", "3", "4", "5", "6", "7", "8", "9">>
Digit(n) == DigitChars[n + 1]

\* String(n) of a natural number / the digits a template literal inserts.
RECURSIVE NumToString(_)
NumToString(n) ==
    IF n < 10 THEN <<Digit(n)>>
    ELSE NumToString(n \div 10) \o <<Digit(n % 10)>>

\* String(n).padStart(2, "0")
pad2(n) ==
    LET str == NumToString(n)
    IN  IF Len(str) < 2 THEN <<"0">> \o str ELSE str

\* What new Date() returns at instant i of the wall clock.  The instants
\* alternate between 23:59:58 of one day and 00:00:05 of the next, starting
\* on 30 December 2025; month is zero-based as getMonth() gives it.
DateAt(i) ==
    LET day == 30 + (i + 1) \div 2
        late == i % 2 = 0
    IN  [fullYear |-> IF day <= 31 THEN 2025 ELSE 2026,
         month    |-> IF day <= 31 THEN 11 ELSE 0,
         date     |-> IF day <= 31 THEN day ELSE day - 31,
         hours    |-> IF late THEN 23 ELSE 0,
         minutes  |-> IF late THEN 59 ELSE 0,
         seconds  |-> IF late THEN 58 ELSE 5]

\* makeFilename(date) of lines 23-31, on a date value.
MakeFilename(date) ==
    <<"diakonoel-">> \o NumToString(date.fullYear) \o pad2(date.month + 1)
        \o pad2(date.date) \o <<"-">> \o pad2(date.hours)
        \o pad2(date.minutes) \o pad2(date.seconds) \o <<".png">>

\* The folder and the object path of lines 44-48.
Folder(now) ==
    NumToString(now.fullYear) \o pad2(now.month + 1) \o pad2(now.date)
ObjectPath(folder, fname) == <<"diakonoel/">> \o folder \o <<"/">> \o fname

\* handleStartCapture makes the filename (line 286) and calls
\* uploadStripToFirebase (line 295), which runs up to its first await:
\* ensureAnonAuth returns the cached identity or calls signInAnonymously.
UploadStrip(c) ==
    /\ upc[c] = "idle"
    /\ \A d \in Uploads : d < c => upc[d] # "idle"
    /\ upFilename' = [upFilename EXCEPT ![c] = MakeFilename(DateAt(clock))]
    /\ IF currentUser # 0
       THEN /\ authUser' = [authUser EXCEPT ![c] = currentUser]
            /\ upc' = [upc EXCEPT ![c] = "blob"]
            /\ UNCHANGED signInCalls
       ELSE /\ signInCalls' = signInCalls + 1
            /\ upc' = [upc EXCEPT ![c] = "signin"]
            /\ UNCHANGED authUser
    /\ UNCHANGED <<clock, upPath, currentUser, nUsers>>
    /\ UNCHANGED <<mainVars, cdVars, dcVars>>

\* signInAnonymously resolves: cred.user is returned and is the current
\* user from now on.  Whether a sign-in that completes when a user is
\* already signed in yields that user or a new one is decided by the SDK.
SignInResolve(c) ==
    /\ upc[c] = "signin"
    /\ \E user \in (IF currentUser # 0 THEN {currentUser} ELSE {})
                       \cup {nUsers + 1} :
        /\ currentUser' = user
        /\ nUsers' = IF user > nUsers THEN user ELSE nUsers
        /\ authUser' = [authUser EXCEPT ![c] = user]
    /\ upc' = [upc EXCEPT ![c] = "blob"]
    /\ UNCHANGED <<clock, upFilename, upPath, signInCalls>>
    /\ UNCHANGED <<mainVars, cdVars, dcVars>>

\* signInAnonymously rejects: ensureAnonAuth throws and so does the upload.
SignInReject(c) ==
    /\ upc[c] = "signin"
    /\ authUser' = [authUser EXCEPT ![c] = -1]
    /\ upc' = [upc EXCEPT ![c] = "rejected"]
    /\ UNCHANGED <<clock, upFilename, upPath, currentUser, signInCalls, nUsers>>
    /\ UNCHANGED <<mainVars, cdVars, dcVars>>

\* dataUrlToBlob resolves: the folder is taken from the clock as it is now,
\* the path is built and uploadBytes is started.
BlobReady(c) ==
    /\ upc[c] = "blob"
    /\ upPath' = [upPath EXCEPT ![c] =
                      ObjectPath(Folder(DateAt(clock)), upFilename[c])]
    /\ upc' = [upc EXCEPT ![c] = "put"]
    /\ UNCHANGED <<clock, upFilename, authUser, currentUser, signInCalls, nUsers>>
    /\ UNCHANGED <<mainVars, cdVars, dcVars>>

\* uploadBytes resolves: getDownloadURL is started.
UploadBytesResolve(c) ==
    /\ upc[c] = "put"
    /\ upc' = [upc EXCEPT ![c] = "geturl"]
    /\ UNCHANGED <<clock, upFilename, upPath, authUser, currentUser,
                   signInCalls, nUsers>>
    /\ UNCHANGED <<mainVars, cdVars, dcVars>>

\* getDownloadURL resolves: so does uploadStripToFirebase.
GetDownloadURLResolve(c) ==
    /\ upc[c] = "geturl"
    /\ upc' = [upc EXCEPT ![c] = "resolved"]
    /\ UNCHANGED <<clock, upFilename, upPath, authUser, currentUser,
                   signInCalls, nUsers>>
    /\ UNCHANGED <<mainVars, cdVars, dcVars>>

\* The fetch of the data URL, uploadBytes or getDownloadURL rejects.
StorageReject(c) ==
    /\ upc[c] \in {"blob", "put", "geturl"}
    /\ upc' = [upc EXCEPT ![c] = "rejected"]
    /\ UNCHANGED <<clock, upFilename, upPath, authUser, currentUser,
                   signInCalls, nUsers>>
    /\ UNCHANGED <<mainVars, cdVars, dcVars>>

\* Time passes.
ClockAdvance ==
    /\ clock < MaxClockSteps
    /\ clock' = clock + 1
    /\ UNCHANGED <<upc, upFilename, upPath, authUser, currentUser,
                   signInCalls, nUsers>>
    /\ UNCHANGED <<mainVars, cdVars, dcVars>>

NextPublish ==
    \/ \E c \in Uploads : UploadStrip(c)
    \/ \E c \in Uploads : SignInResolve(c)
    \/ \E c \in Uploads : SignInReject(c)
    \/ \E c \in Uploads : BlobReady(c)
    \/ \E c \in Uploads : UploadBytesResolve(c)
    \/ \E c \in Uploads : GetDownloadURLResolve(c)
    \/ \E c \in Uploads : StorageReject(c)
    \/ ClockAdvance

SpecPublish == Init /\ [][NextPublish]_vars

(***************************************************************************)
(* runCountdown taken alone                                                *)
(***************************************************************************)

\* The values of the countdown state: null and the numbers.
NullCount == <<>>
Count(k) == <<k>>

\* runCountdown(seconds) up to the return of its promise (lines 136-138).
RunCountdownCall ==
    /\ ~cdInterval /\ cdShown = <<>>
    /\ cdCurrent' = cdSeconds
    /\ cdCountdown' = Count(cdSeconds)
    /\ cdShown' = <<Count(cdSeconds)>>
    /\ cdInterval' = TRUE
    /\ UNCHANGED <<cdSeconds, cdTicks, cdResolves>>
    /\ UNCHANGED <<mainVars, pubVars, dcVars>>

\* Variant of the interval callback that stops below zero only.
IntervalCallback_BelowZero ==
    /\ cdInterval
    /\ cdTicks' = cdTicks + 1
    /\ cdCurrent' = cdCurrent - 1
    /\ IF cdCurrent' < 0
       THEN /\ cdInterval' = FALSE
            /\ cdCountdown' = NullCount
            /\ cdShown' = Append(cdShown, NullCount)
            /\ cdResolves' = cdResolves + 1
       ELSE /\ cdCountdown' = Count(cdCurrent')
            /\ cdShown' = Append(cdShown, Count(cdCurrent'))
            /\ UNCHANGED <<cdInterval, cdResolves>>
    /\ UNCHANGED cdSeconds
    /\ UNCHANGED <<mainVars, pubVars, dcVars>>

\* The interval callback (lines 138-147); a cleared interval runs no more.
IntervalCallback ==
    /\ cdInterval
    /\ cdTicks' = cdTicks + 1
    /\ cdCurrent' = cdCurrent - 1
    /\ IF cdCurrent' <= 0
       THEN /\ cdInterval' = FALSE
            /\ cdCountdown' = NullCount
            /\ cdShown' = Append(cdShown, NullCount)
            /\ cdResolves' = cdResolves + 1
       ELSE /\ cdCountdown' = Count(cdCurrent')
            /\ cdShown' = Append(cdShown, Count(cdCurrent'))
            /\ UNCHANGED <<cdInterval, cdResolves>>
    /\ UNCHANGED cdSeconds
    /\ UNCHANGED <<mainVars, pubVars, dcVars>>

\* runCountdown is about to be called with a whole number of seconds.
InitCountdown ==
    /\ MainRest /\ PubRest /\ DcRest
    /\ cdSeconds \in 1..MaxSeconds
    /\ cdCurrent = 0 /\ cdInterval = FALSE
    /\ cdCountdown = NullCount /\ cdShown = <<>>
    /\ cdTicks = 0 /\ cdResolves = 0

NextCountdown ==
    \/ RunCountdownCall
    \/ IntervalCallback

\* The browser runs the callback of a set interval again and again.
SpecCountdown ==
    InitCountdown /\ [][NextCountdown]_vars /\ WF_vars(NextCountdown)

(***************************************************************************)
(* drawCover taken alone                                                   *)
(*                                                                         *)
(* The numbers of the program are IEEE 754 double-precision values.  A     *)
(* value is kept here as [neg, m, e], standing for (-1)^neg * m * 2^e,     *)
(* with the natural number m held as a sequence of 15-bit limbs, least     *)
(* significant first and without leading zero limbs.  Every arithmetic     *)
(* operation of the code is the exact operation followed by rounding to    *)
(* 53 significant bits, ties to even.  The values that occur are far from  *)
(* overflow and underflow.                                                 *)
(***************************************************************************)

PHOTO_SLOTS ==
    << [x |-> 57, y |-> 68,   width |-> 885, height |-> 589],
       [x |-> 57, y |-> 712,  width |-> 885, height |-> 589],
       [x |-> 57, y |-> 1356, width |-> 885, height |-> 589],
       [x |-> 57, y |-> 1997, width |-> 885, height |-> 589] >>

LimbBase == 32768
LimbBits == 15
MantissaBits == 53

RECURSIVE BNorm(_)
BNorm(a) ==
    IF a = <<>> THEN <<>>
    ELSE IF a[Len(a)] = 0 THEN BNorm(SubSeq(a, 1, Len(a) - 1))
    ELSE a

RECURSIVE BOfInt(_)
BOfInt(n) ==
    IF n = 0 THEN <<>> ELSE <<n % LimbBase>> \o BOfInt(n \div LimbBase)

\* a * k + carry for a small k
RECURSIVE BMulSmall(_, _, _)
BMulSmall(a, k, carry) ==
    IF a = <<>> THEN BOfInt(carry)
    ELSE LET p == a[1] * k + carry
         IN  <<p % LimbBase>> \o BMulSmall(Tail(a), k, p \div LimbBase)

RECURSIVE BAddC(_, _, _)
BAddC(a, b, carry) ==
    IF a = <<>> /\ b = <<>> THEN BOfInt(carry)
    ELSE LET x == (IF a = <<>> THEN 0 ELSE a[1])
                  + (IF b = <<>> THEN 0 ELSE b[1]) + carry
         IN  <<x % LimbBase>>
                 \o BAddC(IF a = <<>> THEN a ELSE Tail(a),
                          IF b = <<>> THEN b ELSE Tail(b), x \div LimbBase)
BAdd(a, b) == BAddC(a, b, 0)

\* a - b - borrow for a >= b + borrow
RECURSIVE BSubC(_, _, _)
BSubC(a, b, borrow) ==
    IF a = <<>> THEN <<>>
    ELSE LET x == a[1] - (IF b = <<>> THEN 0 ELSE b[1]) - borrow
         IN  <<(x + LimbBase) % LimbBase>>
                 \o BSubC(Tail(a), IF b = <<>> THEN b ELSE Tail(b),
                          IF x < 0 THEN 1 ELSE 0)
BSub(a, b) == BNorm(BSubC(a, b, 0))

\* -1, 0, 1 as a < b, a = b, a > b
RECURSIVE BCmpAt(_, _, _)
BCmpAt(a, b, i) ==
    IF i = 0 THEN 0
    ELSE IF a[i] # b[i] THEN (IF a[i] < b[i] THEN -1 ELSE 1)
    ELSE BCmpAt(a, b, i - 1)
BCmp(a, b) ==
    IF Len(a) # Len(b) THEN (IF Len(a) < Len(b) THEN -1 ELSE 1)
    ELSE BCmpAt(a, b, Len(a))

\* quotient and remainder of a by a small k
BDivLimbs(a, k) ==
    LET RECURSIVE Step(_, _)
        Step(i, rem) ==
            IF i = 0 THEN [q |-> <<>>, r |-> rem]
            ELSE LET cur == rem * LimbBase + a[i]
                     rest == Step(i - 1, cur % k)
                 IN  [q |-> Append(rest.q, cur \div k), r |-> rest.r]
    IN  Step(Len(a), 0)
BDivSmall(a, k) ==
    LET d == BDivLimbs(a, k) IN [q |-> BNorm(d.q), r |-> d.r]

\* a * 2^n and floor(a / 2^n)
BShl(a, n) ==
    IF a = <<>> THEN <<>>
    ELSE [i \in 1..(n \div LimbBits) |-> 0]
             \o BMulSmall(a, 2 ^ (n % LimbBits), 0)
BShr(a, n) ==
    IF Len(a) <= n \div LimbBits THEN <<>>
    ELSE BDivSmall(SubSeq(a, n \div LimbBits + 1, Len(a)),
                   2 ^ (n % LimbBits)).q

RECURSIVE SmallBitLen(_)
SmallBitLen(x) == IF x = 0 THEN 0 ELSE 1 + SmallBitLen(x \div 2)
BBitLen(a) ==
    IF a = <<>> THEN 0
    ELSE LimbBits * (Len(a) - 1) + SmallBitLen(a[Len(a)])
BOdd(a) == a # <<>> /\ a[1] % 2 = 1

\* One step of binary long division by d: the remainder is doubled, d is
\* taken off it if it fits, and the quotient gets the next bit.
DivStep(s, d) ==
    LET r2 == BMulSmall(s.r, 2, 0)
        ge == BCmp(r2, d) >= 0
    IN  [r |-> IF ge THEN BSub(r2, d) ELSE r2,
         q |-> BMulSmall(s.q, 2, IF ge THEN 1 ELSE 0)]
DivSteps11(s, d) ==
    LET s1 == DivStep(s, d)    s2 == DivStep(s1, d)   s3 == DivStep(s2, d)
        s4 == DivStep(s3, d)   s5 == DivStep(s4, d)   s6 == DivStep(s5, d)
        s7 == DivStep(s6, d)   s8 == DivStep(s7, d)   s9 == DivStep(s8, d)
        s10 == DivStep(s9, d)
    IN  DivStep(s10, d)

\* floor(rem * 2^(11 * n) / d) for rem < d, with the remainder that is left
RECURSIVE BDivPow2(_, _, _)
BDivPow2(s, d, n) ==
    IF n = 0 THEN s
    ELSE LET s11 == DivSteps11(s, d)
         IN  IF Len(s11.r) + Len(s11.q) >= 0 THEN BDivPow2(s11, d, n - 1)
             ELSE s11

\* m * 2^e, together with a remainder below one unit of m when sticky,
\* rounded to 53 significant bits, ties to even.
Round53(m, e, sticky) ==
    LET len == BBitLen(m)
        s == len - MantissaBits
    IN  IF s <= 0 THEN [neg |-> FALSE, m |-> m, e |-> e]
        ELSE LET q == BShr(m, s)
                 rem == BSub(m, BShl(q, s))
                 c == BCmp(rem, BShl(<<1>>, s - 1))
                 up == c > 0 \/ (c = 0 /\ (sticky \/ BOdd(q)))
             IN  [neg |-> FALSE,
                  m |-> IF up THEN BAdd(q, <<1>>) ELSE q,
                  e |-> e + s]

FZero == [neg |-> FALSE, m |-> <<>>, e |-> 0]
FOfInt(n) == [neg |-> FALSE, m |-> BOfInt(n), e |-> 0]

\* the mantissas of two values brought to their smaller exponent
AlignedL(x, y) == IF x.e >= y.e THEN BShl(x.m, x.e - y.e) ELSE x.m
AlignedR(x, y) == IF y.e >= x.e THEN BShl(y.m, y.e - x.e) ELSE y.m
MinExp(x, y) == IF x.e <= y.e THEN x.e ELSE y.e

\* comparison of two non-negative values
FCmp(x, y) == BCmp(AlignedL(x, y), AlignedR(x, y))

\* a / b for positive whole numbers a, b below 2^12
FDivInts(a, b) ==
    LET d == BDivSmall(BShl(BOfInt(a), 70), b)
    IN  Round53(d.q, -70, d.r # 0)

\* h * x for a whole number h below 2^15
FMulInt(h, x) == Round53(BMulSmall(x.m, h, 0), x.e, FALSE)

\* w / x for a positive whole number w below 2^12 and a 53-bit x
FDivIntBy(w, x) ==
    LET d == BDivPow2([r |-> BOfInt(w), q |-> <<>>], x.m, 10)
    IN  Round53(d.q, -110 - x.e, d.r # <<>>)

\* x - y for non-negative x, y
FSub(x, y) ==
    LET l == AlignedL(x, y)
        r == AlignedR(x, y)
        c == BCmp(l, r)
        d == Round53(IF c >= 0 THEN BSub(l, r) ELSE BSub(r, l),
                     MinExp(x, y), FALSE)
    IN  [d EXCEPT !.neg = c < 0]

\* x / 2
FHalf(x) == IF x.m = <<>> THEN x ELSE [x EXCEPT !.e = x.e - 1]

\* Variant of drawCover that crops the other way round (fits the image
\* inside the slot instead of covering it).
drawCover_Contain(imgW, imgH, slot) ==
    LET imgRatio == FDivInts(imgW, imgH)
        slotRatio == FDivInts(slot.width, slot.height)
        wide == FCmp(imgRatio, slotRatio) < 0
        sWidth == IF wide THEN FMulInt(imgH, slotRatio) ELSE FOfInt(imgW)
        sHeight == IF wide THEN FOfInt(imgH) ELSE FDivIntBy(imgW, slotRatio)
    IN  [sx |-> IF wide THEN FHalf(FSub(FOfInt(imgW), sWidth)) ELSE FZero,
         sy |-> IF wide THEN FZero ELSE FHalf(FSub(FOfInt(imgH), sHeight)),
         sWidth |-> sWidth, sHeight |-> sHeight,
         dx |-> slot.x, dy |-> slot.y,
         dWidth |-> slot.width, dHeight |-> slot.height]

\* drawCover(ctx, img, slot) for an image of imgW x imgH: the arguments of
\* its drawImage call (lines 61-84).
drawCover(imgW, imgH, slot) ==
    LET imgRatio == FDivInts(imgW, imgH)
        slotRatio == FDivInts(slot.width, slot.height)
        wide == FCmp(imgRatio, slotRatio) > 0
        sWidth == IF wide THEN FMulInt(imgH, slotRatio) ELSE FOfInt(imgW)
        sHeight == IF wide THEN FOfInt(imgH) ELSE FDivIntBy(imgW, slotRatio)
    IN  [sx |-> IF wide THEN FHalf(FSub(FOfInt(imgW), sWidth)) ELSE FZero,
         sy |-> IF wide THEN FZero ELSE FHalf(FSub(FOfInt(imgH), sHeight)),
         sWidth |-> sWidth, sHeight |-> sHeight,
         dx |-> slot.x, dy |-> slot.y,
         dWidth |-> slot.width, dHeight |-> slot.height]

\* Sides of the images drawn: small ones and those of common camera modes.
CameraDims == {480, 640, 720, 1280}
Dims == (1..MaxDim) \cup CameraDims

\* img.onload of makeStrip calls drawCover (line 213).
DrawCoverCall ==
    /\ dcDrawn = <<>>
    /\ dcDrawn' = <<drawCover(dcImgW, dcImgH, PHOTO_SLOTS[dcSlot])>>
    /\ UNCHANGED <<dcImgW, dcImgH, dcSlot>>
    /\ UNCHANGED <<mainVars, pubVars, cdVars>>

\* An image with positive dimensions is about to be drawn into a slot.
InitDrawCover ==
    /\ MainRest /\ PubRest /\ CdRest
    /\ dcImgW \in Dims /\ dcImgH \in Dims
    /\ dcSlot \in DOMAIN PHOTO_SLOTS
    /\ dcDrawn = <<>>

NextDrawCover == DrawCoverCall

SpecDrawCover == InitDrawCover /\ [][NextDrawCover]_vars

(***************************************************************************)
(* Properties                                                              *)
(***************************************************************************)

\* Invocations of handleStartCapture that have started and are not over.
Running == {s \in Sessions : pc[s] \notin {"none", "ended"}}
TimerIds(ts) == {t.id : t \in ts}
\* makeStrip of session s has resolved with a composite.
Composited(s) == resolved[s] /\ stripUrl[s] # EmptyUrl
\* The anchor click that offers the composite of session s under its name.
DownloadOf(s) == [href |-> stripUrl[s], download |-> filename[s]]
NumDownloads(s) ==
    Cardinality({i \in DOMAIN downloads : downloads[i] = DownloadOf(s)})

\* C1: printStage changes only idle -> printing (a non-empty composite is
\* ready and its timer is scheduled), printing -> done (the print timer
\* fires) and done -> idle (a new session starts); every other change of
\* printStage is excluded.
C1_PrintStageTransitions ==
    [][printStage' # printStage =>
         \/ /\ printStage = "idle" /\ printStage' = "printing"
            /\ resultUrl'.sess > 0
            /\ printTimerRef' \in TimerIds(timers') \ TimerIds(timers)
         \/ /\ printStage = "printing" /\ printStage' = "done"
            /\ fired' # fired
         \/ /\ printStage = "done" /\ printStage' = "idle"
            /\ nSess' = nSess + 1]_vars

\* A second session has gone through idle and is printing after the first
\* one was printed.
C1_Witness == printStage = "printing" /\ nSess = 2 /\ 1 \in fired

\* C2: a session starts only when the camera is available, no capture is
\* in progress and no print is animating; so at most one invocation of
\* handleStartCapture is running and none starts (resetting printStage to
\* idle) while a print timer is pending.
C2_NoReentrantStart ==
    [][/\ nSess' # nSess =>
            /\ hasCamera /\ ~isCapturing /\ printStage # "printing"
            /\ Running = {}
            /\ timers = {}
       /\ Cardinality(Running') <= 1]_vars

\* The print of the first session is animating with its timer pending (the
\* button is disabled) while a further click would still be explored.
C2_Witness ==
    /\ mounted /\ hasCamera /\ ~isCapturing
    /\ printStage = "printing" /\ timers # {} /\ nSess = 1

\* C3: when makeStrip resolves with a composite, printStage goes from idle
\* to printing and nothing is downloaded yet; a download happens only in
\* the step in which that session's timer fires and printStage goes from
\* printing to done, it offers that session's composite under that
\* session's filename, and each composited session has exactly one
\* download once its timer has fired and none before.
C3_DownloadOnceAtDone ==
    [][/\ \A s \in Sessions :
            (Composited(s)' /\ ~Composited(s)) =>
                /\ printStage = "idle" /\ printStage' = "printing"
                /\ downloads' = downloads
       /\ downloads' # downloads =>
            \E s \in Sessions :
                /\ Composited(s)
                /\ s \in fired' \ fired
                /\ printStage = "printing" /\ printStage' = "done"
                /\ NumDownloads(s) = 0
                /\ downloads' = Append(downloads, DownloadOf(s))
       /\ \A s \in Sessions :
            Composited(s)' =>
                NumDownloads(s)' = IF s \in fired' THEN 1 ELSE 0
       /\ Len(downloads') = Cardinality(fired')]_vars

\* Both sessions were composited and printed: two downloads, one each.
C3_Witness ==
    /\ printStage = "done" /\ Len(downloads) = 2
    /\ downloads[1] = DownloadOf(1) /\ downloads[2] = DownloadOf(2)

\* C4: the step in which an upload settles leaves printStage, resultUrl,
\* the pending timer and the downloads as they are; a rejection sets the
\* inline error and a success the QR payload.  A composited session's print
\* timer is pending, has fired, or was cancelled, and only teardown cancels
\* one: no upload outcome takes the print away.
C4_UploadNeverAffectsPrint ==
    [][/\ uploadsPending' # uploadsPending /\ uploadsPending' \subseteq uploadsPending =>
            /\ UNCHANGED <<printStage, resultUrl, timers, printTimerRef,
                           downloads, fired, cancelled>>
            /\ \/ uploadError' = UploadFailedMsg /\ qrUrl' = qrUrl
               \/ /\ uploadError' = uploadError
                  /\ qrUrl' \in {DownloadURL(s) : s \in uploadsPending \ uploadsPending'}
       /\ cancelled' # {} => ~mounted'
       /\ \A s \in Sessions :
            Composited(s)' => s \in TimerIds(timers') \cup fired' \cup cancelled']_vars

\* The upload was rejected while the print timer is still pending.
C4_Witness ==
    /\ uploadError = UploadFailedMsg /\ uploadsPending = {}
    /\ printStage = "printing" /\ timers # {}

\* The upload was rejected and the print went on to done with its download.
C4_WitnessDone ==
    /\ uploadError = UploadFailedMsg
    /\ printStage = "done" /\ Len(downloads) = 1 /\ nSess = 1

\* The shot images of session s that have loaded and been drawn.
LoadedImages(s) == {k \in Slots : imgState[s][k] = "loaded"}
Capturing == {s \in Sessions : pc[s] \in {"countdown", "flash", "pause"}}

\* C5: makeStrip resolves with a composite only in the step in which the
\* last of its four shot images loads, all others having loaded and been
\* drawn before, and every slot of that composite is filled; while it is
\* unresolved no shot image has failed; once one has failed the promise is
\* resolved with the empty string; a resolved value never changes.
C5_AllOrNothing ==
    [][\A s \in Sessions :
        /\ (Composited(s)' /\ ~Composited(s)) =>
              /\ pc[s] = "imgload"
              /\ NumImages(s) = CAPTURE_COUNT
              /\ Cardinality(LoadedImages(s)) = CAPTURE_COUNT - 1
              /\ loaded[s] = CAPTURE_COUNT - 1
              /\ s \notin imgFailed'
              /\ \A k \in Slots : stripUrl'[s].slots[k] # -1
        /\ s \in imgFailed' => (resolved'[s] /\ stripUrl'[s] = EmptyUrl)
        /\ resolved[s] => (resolved'[s] /\ stripUrl'[s] = stripUrl[s])
        /\ pc'[s] = "imgload" =>
              /\ \A k \in Slots : imgState'[s][k] \in {"pending", "loaded"}
              /\ loaded'[s] = Cardinality(LoadedImages(s)')]_vars

\* A shot image of the first session failed: the result is "", and all its
\* image events have arrived.
C5_Witness ==
    /\ 1 \in imgFailed /\ resolved[1] /\ stripUrl[1] = EmptyUrl
    /\ pc[1] = "ended" /\ \A k \in Slots : imgState[1][k] = "none"

\* C6 as stated: in the step in which a shot image of a session fails to
\* load, resultUrl stays null, an alert is raised, printStage stays idle,
\* uploading is false, isCapturing becomes false and the capture button is
\* enabled again.
C6_Original ==
    [][\A s \in Sessions :
        s \in imgFailed' \ imgFailed =>
            /\ resultUrl' = NullUrl
            /\ alerts' = alerts + 1
            /\ printStage' = "idle"
            /\ uploading' = FALSE
            /\ isCapturing' = FALSE
            /\ mounted' => CaptureButtonEnabled']_vars

\* C6 amended: in the step in which a shot image of a session fails to
\* load, resultUrl stays null, an alert is raised, printStage stays idle, no
\* timer and no upload is started, the uploading flag keeps its value (true
\* only if an upload of an earlier session is still pending), isCapturing
\* becomes false and the capture button is enabled again.
C6_DecodeFailureResets ==
    [][\A s \in Sessions :
        s \in imgFailed' \ imgFailed =>
            /\ resultUrl' = NullUrl /\ resultUrl = NullUrl
            /\ ~Composited(s)'
            /\ alerts' = alerts + 1
            /\ printStage' = "idle" /\ printStage = "idle"
            /\ UNCHANGED <<timers, printTimerRef, uploadsPending, uploading,
                           downloads>>
            /\ uploading' => uploadsPending' \ {s} # {}
            /\ isCapturing /\ isCapturing' = FALSE
            /\ mounted' => CaptureButtonEnabled']_vars

\* A shot of the second session failed while the first session's upload was
\* still pending; the button is enabled again.
C6_Witness ==
    /\ 2 \in imgFailed /\ pc[2] = "ended" /\ uploading
    /\ resultUrl = NullUrl /\ printStage = "idle" /\ CaptureButtonEnabled

\* C7: at most one invocation is in its capture loop; a countdown starts
\* only at the start of a session or after the previous round's pause, a
\* flash only after its countdown, a pause only after its flash; in round i
\* exactly i shots exist before the capture; makeStrip is called only by
\* the step that pushes the fourth shot.
C7_SequentialRounds ==
    [][/\ Cardinality(Capturing') <= 1
       /\ \A s \in Sessions :
           /\ pc'[s] = "countdown" =>
                 /\ Len(shots'[s]) = round'[s] /\ round'[s] < CAPTURE_COUNT
                 /\ current'[s] \in 1..CountdownSeconds
           /\ pc'[s] = "flash" => Len(shots'[s]) = round'[s]
           /\ pc'[s] = "pause" =>
                 /\ Len(shots'[s]) = round'[s] + 1
                 /\ round'[s] < CAPTURE_COUNT - 1
           /\ pc'[s] = "bgload" => Len(shots'[s]) = CAPTURE_COUNT
           /\ pc'[s] = "imgload" => NumImages(s)' = CAPTURE_COUNT
           /\ (pc'[s] = "countdown" /\ pc[s] # "countdown") =>
                 \/ pc[s] = "none" /\ round'[s] = 0
                 \/ pc[s] = "pause" /\ round'[s] = round[s] + 1
           /\ (pc'[s] = "flash" /\ pc[s] # "flash") =>
                 pc[s] = "countdown" /\ current[s] = 1
           /\ (pc'[s] = "pause" /\ pc[s] # "pause") => pc[s] = "flash"
           /\ (pc[s] = "flash" /\ pc'[s] \in {"bgload", "ended"}) =>
                 /\ Len(shots[s]) = CAPTURE_COUNT - 1
                 /\ round[s] = CAPTURE_COUNT - 1
           /\ (pc'[s] = "bgload" /\ pc[s] # "bgload") => pc[s] = "flash"
           /\ (pc'[s] = "imgload" /\ pc[s] # "imgload") => pc[s] = "bgload"]_vars

\* The second session has collected its four shots and called makeStrip.
C7_Witness == pc[2] = "bgload" /\ Len(shots[2]) = CAPTURE_COUNT

\* C8: at most one print timer is pending and it is the one printTimerRef
\* holds; a call of startPrintAnimation leaves exactly its new timer pending
\* and every timer that was pending before it cancelled; a cancelled timer
\* never fires, and no download comes from a cancelled timer.
C8_OneTimerOutstanding ==
    [][/\ Cardinality(timers') <= 1
       /\ TimerIds(timers') \subseteq {printTimerRef'}
       /\ printTimerRef' # printTimerRef =>
            /\ TimerIds(timers') = {printTimerRef'}
            /\ TimerIds(timers) \subseteq cancelled'
       /\ cancelled' \cap fired' = {}
       /\ (fired' \ fired) \subseteq (TimerIds(timers) \ cancelled)
       /\ \A i \in DOMAIN downloads' : downloads'[i].href.sess \notin cancelled']_vars

\* startPrintAnimation has run a second time, with the handle of the first
\* timer in printTimerRef, and its timer is the only one pending.
C8_Witness == printTimerRef = 2 /\ TimerIds(timers) = {2} /\ 1 \in fired

\* C9: a rejected getUserMedia leaves hasCamera as it is and raises an
\* alert; hasCamera is false exactly as long as no getUserMedia call has
\* succeeded, and as long as it is false no session has started: countdown
\* is null and isCapturing is false.
C9_DeniedCameraBlocksCapture ==
    [][/\ (camPending' < camPending /\ acquired' = acquired) =>
            (hasCamera' = hasCamera /\ alerts' = alerts + 1)
       /\ hasCamera' <=> acquired' # {}
       /\ ~hasCamera' =>
            /\ ~isCapturing' /\ countdown' = 0
            /\ nSess' = 0 /\ Running' = {}]_vars

\* Every request made was rejected: alerts were shown, no camera.
C9_Witness ==
    /\ nCam >= 1 /\ camPending = 0 /\ alerts = nCam
    /\ ~hasCamera /\ mounted

\* C10 as stated: at most one stream is ever acquired, no stream is
\* stopped while the component is mounted, and after teardown every
\* acquired stream is stopped.
C10_SingleStreamHeld ==
    /\ Cardinality(acquired) <= 1
    /\ mounted => stopped = {}
    /\ ~mounted => acquired \subseteq stopped


\* The <YYYYMMDD> parts of an object path and of a filename.
FolderOf(path) == SubSeq(path, 2, 9)
DateInFilename(fname) == SubSeq(fname, 2, 9)

\* C11: for every upload the folder of the object path equals the date
\* embedded in the filename of that upload, whatever time elapses between
\* the making of the filename and the computation of the path.
C11_FolderIsFilenameDate ==
    \A c \in Uploads :
        upPath[c] # <<>> => FolderOf(upPath[c]) = DateInFilename(upFilename[c])

\* C12: as long as no sign-in has failed, signInAnonymously is invoked at
\* most once and all calls of ensureAnonAuth return the same identity, be
\* the calls sequential or overlapping.
C12_IdempotentAuth ==
    (\A c \in Uploads : authUser[c] # -1) =>
        /\ signInCalls <= 1
        /\ \A c, d \in Uploads :
               authUser[c] > 0 /\ authUser[d] > 0 => authUser[c] = authUser[d]

\* C13: a session calls uploadStripToFirebase only at the end of its
\* invocation of handleStartCapture, once if makeStrip gave a composite and
\* not at all otherwise, and never again afterwards: a rejected upload is
\* not retried.
C13_SingleUploadAttempt ==
    [][\A s \in Sessions :
          /\ uploadCalls'[s] # uploadCalls[s] =>
                 /\ uploadCalls[s] = 0 /\ uploadCalls'[s] = 1
                 /\ pc[s] # "ended" /\ pc'[s] = "ended"
          /\ pc[s] # "ended" /\ pc'[s] = "ended" =>
                 uploadCalls'[s] = IF Composited(s)' THEN 1 ELSE 0
          /\ pc[s] = "ended" => pc'[s] = "ended"]_vars

\* Session 1 ended without a composite and never uploaded; the one upload
\* of session 2 was rejected and nothing is pending.
C13_Witness ==
    /\ pc[1] = "ended" /\ ~Composited(1) /\ uploadCalls[1] = 0
    /\ Composited(2) /\ uploadCalls[2] = 1
    /\ uploadError = UploadFailedMsg /\ uploadsPending = {}

\* The k-th value runCountdown shows is seconds - k + 1; the value shown
\* after all the seconds is null.
ShownAsCounted ==
    \A k \in DOMAIN cdShown :
        cdShown[k] = IF k <= cdSeconds THEN Count(cdSeconds - k + 1)
                     ELSE NullCount

\* C14: runCountdown(n), n >= 1 whole, shows n, n-1, ..., 1, one step down
\* per tick and never 0 or less; exactly at tick n it clears its interval,
\* sets the countdown to null and resolves, once; and it always gets there.
C14_CountdownRuns ==
    /\ [](/\ ShownAsCounted
          /\ Len(cdShown) = (IF cdInterval \/ cdResolves > 0 THEN cdTicks + 1 ELSE 0)
          /\ cdTicks <= cdSeconds
          /\ cdResolves = (IF cdTicks = cdSeconds THEN 1 ELSE 0)
          /\ cdInterval = (cdShown # <<>> /\ cdTicks < cdSeconds)
          /\ cdCountdown = (IF cdShown = <<>> THEN NullCount
                            ELSE cdShown[Len(cdShown)]))
    /\ <>[](cdResolves = 1 /\ ~cdInterval /\ cdCountdown = NullCount)

\* The longest countdown explored has run to its end.
C14_Witness ==
    cdSeconds = MaxSeconds /\ cdTicks = cdSeconds /\ cdResolves = 1

\* C16: in every completed composite each slot holds the shot of its own
\* round of that session, whatever the order of the image load events.
C16_ShotInItsSlot ==
    \A s \in Sessions :
        Composited(s) => \A k \in Slots : stripUrl[s].slots[k] = Img(s, k)

\* Frames that the capture canvas of session s can still hold from the
\* rounds before round k: none of them is a frame of round k.
StaleFrames(s, k) == {Blank} \cup {Frame(s, j) : j \in 1..(k - 1)}

\* C17: a capture that finds no usable video leaves the capture canvas as
\* it is and alerts nothing; the flash follows all the same, the image
\* pushed for that round is what the canvas held before (blank or the frame
\* of an earlier round, never a frame of this round), the step that ends
\* the round is always possible, and makeStrip is still called with four
\* shots.
C17_SilentCaptureFailure ==
    /\ [][\A s \in Sessions :
            /\ (pc[s] = "countdown" /\ pc'[s] = "flash") =>
                   /\ tmpCanvas'[s] \in {Frame(s, round[s] + 1), tmpCanvas[s]}
                   /\ alerts' = alerts /\ flashVisible'
            /\ (pc[s] = "flash" /\ pc'[s] \in {"pause", "bgload"}) =>
                   /\ shots'[s] = Append(shots[s], tmpCanvas[s])
                   /\ tmpCanvas[s] # Frame(s, round[s] + 1) =>
                          tmpCanvas[s] \in StaleFrames(s, round[s] + 1)
                   /\ pc'[s] = "bgload" => Len(shots'[s]) = CAPTURE_COUNT]_vars
    /\ [](\A s \in Sessions : pc[s] = "flash" => ENABLED FlashTimeout(s))

\* Session 1 found no usable video in rounds 1 and 3 and has called
\* makeStrip with four shots: a blank one, and the frame of round 2 twice.
C17_Witness ==
    /\ pc[1] = "bgload" /\ Len(shots[1]) = CAPTURE_COUNT
    /\ shots[1][1] = Blank /\ shots[1][2] = Frame(1, 2)
    /\ shots[1][3] = Frame(1, 2) /\ shots[1][4] = Frame(1, 4)

\* C18: whenever the QR payload is set it is the download URL of the most
\* recently started session, and the QR payload and the upload error are
\* never set together.
C18_QrOfCurrentSession ==
    /\ qrUrl # 0 => qrUrl = DownloadURL(nSess)
    /\ ~(qrUrl # 0 /\ uploadError # NullMsg)

\* C19: the uploading flag is true exactly while some upload is pending.
C19_UploadingIffPending == uploading <=> uploadsPending # {}

\* C20: once the component is torn down no print timer is pending and no
\* download is made any more.
C20_NothingAfterTeardown ==
    [][~mounted' => timers' = {} /\ downloads' = downloads]_vars

\* Exact arithmetic on the values drawCover computed.
TimesInt(x, k) == [x EXCEPT !.m = BMulSmall(x.m, k, 0)]
TimesPow2(x, n) == [x EXCEPT !.e = x.e + n]
ExactSum(x, y) ==
    [neg |-> FALSE, m |-> BAdd(AlignedL(x, y), AlignedR(x, y)),
     e |-> MinExp(x, y)]
ExactGap(x, y) ==
    LET l == AlignedL(x, y)
        r == AlignedR(x, y)
    IN  [neg |-> FALSE,
         m |-> IF BCmp(l, r) >= 0 THEN BSub(l, r) ELSE BSub(r, l),
         e |-> MinExp(x, y)]

\* The source rectangle lies inside the image, only one axis is cropped
\* (the width when the image is wider than the slot, the height otherwise)
\* and the destination is the slot.
CoverPlacement(a, imgW, imgH, slot) ==
    /\ ~a.sx.neg /\ ~a.sy.neg
    /\ FCmp(ExactSum(a.sx, a.sWidth), FOfInt(imgW)) <= 0
    /\ FCmp(ExactSum(a.sy, a.sHeight), FOfInt(imgH)) <= 0
    /\ IF imgW * slot.height > imgH * slot.width
       THEN /\ a.sy = FZero /\ a.sHeight = FOfInt(imgH)
            /\ FCmp(a.sWidth, FOfInt(imgW)) < 0
       ELSE /\ a.sx = FZero /\ a.sWidth = FOfInt(imgW)
    /\ a.dx = slot.x /\ a.dy = slot.y
    /\ a.dWidth = slot.width /\ a.dHeight = slot.height

\* C15 as stated: the source rectangle has exactly the aspect ratio of the
\* slot and is exactly centred, next to its placement.
C15_Original ==
    dcDrawn # <<>> =>
        LET a == dcDrawn[1]
            slot == PHOTO_SLOTS[dcSlot]
        IN  /\ CoverPlacement(a, dcImgW, dcImgH, slot)
            /\ FCmp(TimesInt(a.sWidth, slot.height),
                    TimesInt(a.sHeight, slot.width)) = 0
            /\ FCmp(ExactSum(TimesInt(a.sx, 2), a.sWidth), FOfInt(dcImgW)) = 0
            /\ FCmp(ExactSum(TimesInt(a.sy, 2), a.sHeight), FOfInt(dcImgH)) = 0

\* C15, amended: the source rectangle has the aspect ratio of the slot and
\* is centred up to the rounding of double-precision arithmetic, that is
\* |sWidth * height - sHeight * width| <= 2^-51 * sHeight * width,
\* |2 * sx + sWidth - imgW| <= 2^-51 * imgW and likewise for the other
\* axis; its placement is as stated.
C15_CoverUpToRounding ==
    dcDrawn # <<>> =>
        LET a == dcDrawn[1]
            slot == PHOTO_SLOTS[dcSlot]
        IN  /\ CoverPlacement(a, dcImgW, dcImgH, slot)
            /\ FCmp(TimesPow2(ExactGap(TimesInt(a.sWidth, slot.height),
                                       TimesInt(a.sHeight, slot.width)), 51),
                    TimesInt(a.sHeight, slot.width)) <= 0
            /\ FCmp(TimesPow2(ExactGap(ExactSum(TimesInt(a.sx, 2), a.sWidth),
                                       FOfInt(dcImgW)), 51),
                    FOfInt(dcImgW)) <= 0
            /\ FCmp(TimesPow2(ExactGap(ExactSum(TimesInt(a.sy, 2), a.sHeight),
                                       FOfInt(dcImgH)), 51),
                    FOfInt(dcImgH)) <= 0

\* A 1280 x 720 frame has been drawn into the last slot, cropped in width.
C15_Witness ==
    /\ dcDrawn # <<>> /\ dcImgW = 1280 /\ dcImgH = 720 /\ dcSlot = 4
    /\ dcDrawn[1].sx # FZero /\ dcDrawn[1].dy = 1997

====
